---- MODULE Spec2Model ----
(***************************************************************************)
(* A state-machine model of the Twitch API client (src/twitch.js) and of   *)
(* the stream lifecycle (src/models/Stream.js).                            *)
(*                                                                         *)
(* SpecApi models apiRequest / ensureToken and the process-wide token.     *)
(***************************************************************************)
EXTENDS Integers, Sequences, FiniteSets, TLC

VARIABLES
    token,      \* twitch.js:11      the process-wide bearer token
    exited,     \* twitch.js:44      process.exit(1) has been called
    reqs,       \* every apiRequest invocation made so far, in call order
    ensures,    \* every ensureToken invocation made so far, in call order
    lastTok,    \* history: the value most recently cached by ensureToken
    saw401,     \* history: a 401 was received since lastTok was cached
    pgFn,       \* the paginated fetch that runs: "getStreams" or "getAllTags"
    pgSt,       \* "fetching" (a page request is in flight), "done", "failed"
    pgPages,    \* history: the responses received so far, in order
    pgAcc,      \* twitch.js:111,141  the accumulator (tags / streams)
    pgOut,      \* the value the outermost promise resolved to
    mdTagIds,   \* twitch.js:186  the tagIds option of getStreamsByMetadata
    mdKeywords, \* twitch.js:186  the keywords option
    mdFetches,  \* history: how many getStreams calls have returned
    mdTagged,   \* the value of getStreamsByTagId: <<>> while pending
    mdKw,       \* the value of getStreamsByKeywords: <<>> while pending
    mdSt,       \* "fetching", "done" or "failed"
    mdOut,      \* the value getStreamsByMetadata resolved to
    now,        \* the wall clock (new Date()), in half minutes
    ticks,      \* how many times the clock has moved
    cfg,        \* config.json: is the channel whitelisted / blacklisted
    row,        \* the record of the channel in the streams table
    pending,    \* the addNew / goneLive call that awaits alertStream
    lastOp      \* history: the operation that has just completed

apiVars == <<token, exited, reqs, ensures, lastTok, saw401>>

pageVars == <<pgFn, pgSt, pgPages, pgAcc, pgOut>>

metaVars == <<mdTagIds, mdKeywords, mdFetches, mdTagged, mdKw, mdSt, mdOut>>

streamVars == <<now, ticks, cfg, row, pending, lastOp>>

vars == <<apiVars, pageVars, metaVars, streamVars>>

-----------------------------------------------------------------------------
(* Bounds *)

\* The number of apiRequest invocations (fetches) one run may make.
MaxRequests == 4

\* The same, in a run that follows a single call of apiRequest (SpecChain).
MaxChain == 5

\* The number of calls made from outside the module (exported functions).
MaxCalls == 2

\* The number of pages one paginated fetch may receive.
MaxPages == 3

\* The number of streams one getStreams call may return.
MaxList == 2

\* The number of times the clock moves in one run.
MaxTicks == 2

\* The requests and the outside calls of a run that starts with two
\* concurrent ensureToken calls.
MaxRace == 4
MaxRaceCalls == 3

-----------------------------------------------------------------------------
(* Values *)

\* `let token;` is undefined until set; a 401 sets it to null.
Absent == {"undefined", "null"}

\* `if (token)`: a non-empty string is truthy, undefined and null are not.
Truthy(t) == t \notin Absent

\* The access_token values the authorization server may hand out.
TokenValues == {"tokA", "tokB"}

\* What the upstream may answer to one fetch: a status, a body that does not
\* decode (res.json() rejects), or no response at all (fetch rejects).
\* 429 and 500 stand for the statuses that are neither 200 nor 401.
Responses ==
    { [status |-> 200, fault |-> "none"],
      [status |-> 200, fault |-> "decode"],
      [status |-> 401, fault |-> "none"],
      [status |-> 429, fault |-> "none"],
      [status |-> 500, fault |-> "none"],
      [status |-> 0,   fault |-> "transport"] }

\* The values a promise of apiRequest may hold.
Pending      == [k |-> "pending",   code |-> 0,   val |-> ""]
Undefined    == [k |-> "undefined", code |-> 0,   val |-> ""]
StatusVal(s) == [k |-> "status",    code |-> s,   val |-> ""]
BodyVal(v)   == [k |-> "body",      code |-> 200, val |-> v]

\* The decoded 200 body of an endpoint: the token endpoint answers with an
\* access_token, every other endpoint with its payload.
Bodies(endpoint) ==
    IF endpoint = "token" THEN {BodyVal(t) : t \in TokenValues}
    ELSE {BodyVal("payload")}

-----------------------------------------------------------------------------
(* Strings: toLowerCase and includes, as used on titles and keywords *)

\* A string is a sequence of characters. A nullable value is <<>> (null or
\* undefined) or <<v>>.
Null == <<>>
Some(v) == <<v>>
IsNull(x) == x = <<>>
Val(x) == x[1]

LowerChar(c) ==
    CASE c = "A" -> "a"
      [] c = "B" -> "b"
      [] c = "X" -> "x"
      [] OTHER -> c

\* String.prototype.toLowerCase / toLocaleLowerCase.
ToLowerCase(str) == [k \in 1..Len(str) |-> LowerChar(str[k])]

\* String.prototype.includes: sub occurs in str as a contiguous substring.
Includes(str, sub) ==
    \E k \in 0..(Len(str) - Len(sub)) :
        \A m \in 1..Len(sub) : str[k + m] = sub[m]

\* Array.prototype.includes.
ArrayIncludes(arr, x) == \E k \in 1..Len(arr) : arr[k] = x

-----------------------------------------------------------------------------
(* Records of the streams table and observed streams, models/Stream.js *)

\* config.thresholds.reconnect_minutes and shoutout_hours (lines 128, 130).
reconnect_minutes == 5
shoutout_hours == 6

\* The clock counts half minutes, so that date-fns has something to round.
MinuteLen == 2
HourLen == 60 * MinuteLen

\* config.twitch.blacklist: keywords and tagIds; userIds holds the channel
\* when cfg.blacklisted.
BlacklistKeywords == << <<"X">> >>
BlacklistTagIds == <<"bad">>

\* What the upstream may report for the channel (a TwitchStream): a stream
\* nothing is wrong with, one with a blacklisted word in its title, one with
\* a blacklisted tag, and one that carries neither title nor tags.
Observations ==
    { [id |-> 1, title |-> Some(<<"a", "b">>),      tag_ids |-> Some(<<"t1">>)],
      [id |-> 2, title |-> Some(<<"a", "x", "b">>), tag_ids |-> Some(<<"t1">>)],
      [id |-> 3, title |-> Some(<<"a", "b">>),      tag_ids |-> Some(<<"t1", "bad">>)],
      [id |-> 4, title |-> Null,                    tag_ids |-> Null] }

\* The table holds no record of the channel.
NoRow ==
    [ exists |-> FALSE, stream_id |-> Null, title |-> Null, tag_ids |-> Null,
      isLive |-> Null, lastShoutOut |-> Null, offline_since |-> Null ]

\* What goneLive keeps of the record it was given.
Snapshot(stream) ==
    [ isLive |-> stream.isLive, lastShoutOut |-> stream.lastShoutOut,
      offline_since |-> stream.offline_since ]

NoOp ==
    [ op |-> "none", decision |-> "none", check |-> "none",
      notified |-> FALSE, alertOk |-> FALSE, subscribed |-> FALSE,
      stored |-> FALSE, snap |-> Snapshot(NoRow), obs |-> Null, at |-> 0 ]

-----------------------------------------------------------------------------
(* apiRequest, twitch.js:13-77 *)

\* A freshly issued request (the fetch of lines 32-35 is in flight).
NewRequest(endpoint, noauth, retries, root, nth, by, ens) ==
    [ endpoint |-> endpoint, noauth |-> noauth, retries |-> retries,
      root |-> root, nth |-> nth, by |-> by, ens |-> ens,
      st |-> "inflight", resp |-> [status |-> 0, fault |-> "none"],
      result |-> Pending, retried |-> FALSE, kept |-> TRUE ]

\* The branch of the first .then handler (lines 37-57) a status takes.
ResponseBranchRetryAll(status) ==
    IF status = 200 THEN "ok" ELSE "unauthorized"

ResponseBranch(status) ==
    IF status = 401 THEN "unauthorized"
    ELSE IF status # 200 THEN "status"
    ELSE "ok"

\* Line 41: the retry budget is exhausted.
RetriesExhaustedNever(retries) == retries < 0

RetriesExhausted(retries) == retries = 0

\* What one response does to the call: "exit" (process.exit, line 44),
\* "reject" (the handler of lines 60-76 runs: the first handler threw at line
\* 47, fetch rejected, or res.json() rejected) or "value" (lines 49-55).
Disposition(q, r) ==
    IF r.fault = "transport" THEN "reject"
    ELSE IF ResponseBranch(r.status) = "unauthorized"
         THEN IF RetriesExhausted(q.retries) THEN "exit" ELSE "reject"
    ELSE IF ResponseBranch(r.status) = "status" THEN "value"
    ELSE IF r.fault = "decode" THEN "reject" ELSE "value"

\* The value the promise of apiRequest resolves to. The rejection handler
\* (lines 60-76) returns nothing: `ensureToken().then(...)` is not returned.
Resolution(q, r, body) ==
    IF Disposition(q, r) = "reject" THEN Undefined
    ELSE IF ResponseBranch(r.status) = "status" THEN StatusVal(r.status)
    ELSE body

\* The token after the handlers of apiRequest ran: line 39 and line 63.
TokenAfterResponse(q, r, tok) ==
    IF r.fault = "none" /\ ResponseBranch(r.status) = "unauthorized" THEN "null"
    ELSE IF Disposition(q, r) = "reject" THEN "null"
    ELSE tok

-----------------------------------------------------------------------------
(* ensureToken, twitch.js:82-104 *)

\* A new ensureToken invocation. req is the token request it awaits (0 when
\* it returned the cached token), cont the request whose rejection handler
\* called it (0 for a call from outside).
NewEnsure(tok, req, cont) ==
    [ st |-> IF Truthy(tok) THEN "resolved" ELSE "pending",
      req |-> req, cont |-> cont,
      result |-> IF Truthy(tok) THEN tok ELSE "",
      reissued |-> FALSE,
      tokAtCall |-> tok, lastAtCall |-> lastTok, saw401AtCall |-> saw401 ]

\* Lines 98-102: `({ access_token }) => { token = access_token; ... }`.
\* Destructuring undefined throws; a bare status code has no access_token.
EnsureSettle(e, value) ==
    IF value.k = "undefined"
        THEN [e EXCEPT !.st = "rejected", !.result = "TypeError"]
    ELSE IF value.k = "status"
        THEN [e EXCEPT !.st = "resolved", !.result = "undefined"]
    ELSE [e EXCEPT !.st = "resolved", !.result = value.val]

-----------------------------------------------------------------------------
(* Actions of the API client *)

ExternalCalls ==
    Cardinality({i \in 1..Len(reqs) : reqs[i].by = "caller"})
    + Cardinality({j \in 1..Len(ensures) : ensures[j].cont = 0})

\* A caller invokes apiRequest on a data endpoint with the default budget
\* (retries = 1, line 20).
ApiRequestCalled(maxReq, maxCalls) ==
    /\ ~exited
    /\ Len(reqs) < maxReq
    /\ ExternalCalls < maxCalls
    /\ reqs' = Append(reqs,
          NewRequest("api", FALSE, 1, Len(reqs) + 1, 1, "caller", 0))
    /\ UNCHANGED <<token, exited, ensures, lastTok, saw401>>
    /\ UNCHANGED <<pageVars, metaVars, streamVars>>

\* A caller invokes the exported ensureToken (as getAllWebhooks does).
EnsureTokenCalled(maxReq, maxCalls) ==
    /\ ~exited
    /\ ExternalCalls < maxCalls
    /\ IF Truthy(token)
       THEN /\ ensures' = Append(ensures, NewEnsure(token, 0, 0))
            /\ UNCHANGED reqs
       ELSE /\ Len(reqs) < maxReq
            /\ ensures' = Append(ensures, NewEnsure(token, Len(reqs) + 1, 0))
            /\ reqs' = Append(reqs,
                  NewRequest("token", TRUE, 1, Len(reqs) + 1, 1, "ensure",
                             Len(ensures) + 1))
    /\ UNCHANGED <<token, exited, lastTok, saw401>>
    /\ UNCHANGED <<pageVars, metaVars, streamVars>>

\* The upstream answers request i with r (and, on a decoded 200, body).
\* The handlers of lines 36-76 run, and then the continuation of the
\* ensureToken that awaits this request (lines 98-102), if there is one.
Respond(i, r, body, maxReq) ==
    LET q    == reqs[i]
        disp == Disposition(q, r)
        val  == Resolution(q, r, body)
        tok1 == TokenAfterResponse(q, r, token)
        is401 == r.fault = "none" /\ r.status = 401
        awaited == q.ens # 0 /\ disp # "exit"
        settled == IF awaited THEN EnsureSettle(ensures[q.ens], val)
                   ELSE NewEnsure("null", 0, 0)
        wrote   == awaited /\ settled.st = "resolved"
        cached  == wrote /\ Truthy(settled.result)
        tok2 == IF wrote THEN settled.result ELSE tok1
        ens1 == IF awaited THEN [ensures EXCEPT ![q.ens] = settled]
                ELSE ensures
        q1 == [q EXCEPT !.st = IF disp = "exit" THEN "exit" ELSE "settled",
                        !.resp = r,
                        !.result = IF disp = "exit" THEN Pending ELSE val,
                        !.retried = (disp = "reject"),
                        !.kept = (tok1 = token)]
    IN
    /\ ~exited
    /\ q.st = "inflight"
    /\ disp = "reject" => Len(reqs) < maxReq
    /\ exited' = (disp = "exit")
    /\ token' = tok2
    /\ lastTok' = IF cached THEN settled.result ELSE lastTok
    /\ saw401' = IF cached THEN FALSE ELSE (saw401 \/ is401)
    /\ IF disp = "reject"
       THEN \* lines 63-64: token = null; ensureToken() starts an exchange
            /\ reqs' = Append([reqs EXCEPT ![i] = q1],
                  NewRequest("token", TRUE, 1, Len(reqs) + 1, 1, "ensure",
                             Len(ensures) + 1))
            /\ ensures' = Append(ens1,
                  [NewEnsure("null", Len(reqs) + 1, i)
                      EXCEPT !.saw401AtCall = saw401 \/ is401])
       ELSE /\ reqs' = [reqs EXCEPT ![i] = q1]
            /\ ensures' = ens1
    /\ UNCHANGED <<pageVars, metaVars, streamVars>>

ResponseArrives(maxReq) ==
    \E i \in 1..Len(reqs) : \E r \in Responses :
        \E body \in Bodies(reqs[i].endpoint) : Respond(i, r, body, maxReq)

\* Lines 64-75: the ensureToken called by the rejection handler of request
\* c resolved, and its .then re-issues the request with retries - 1 (noauth
\* is not passed on). Bluebird runs this .then in a later turn of the event
\* loop, so other handlers may run in between.
Reissue(j, maxReq) ==
    LET e == ensures[j]
        c == reqs[e.cont]
    IN
    /\ ~exited
    /\ e.cont # 0
    /\ e.st = "resolved"
    /\ ~e.reissued
    /\ Len(reqs) < maxReq
    /\ ensures' = [ensures EXCEPT ![j].reissued = TRUE]
    /\ reqs' = Append(reqs,
          NewRequest(c.endpoint, FALSE, c.retries - 1, c.root, c.nth + 1,
                     "retry", 0))
    /\ UNCHANGED <<token, exited, lastTok, saw401>>
    /\ UNCHANGED <<pageVars, metaVars, streamVars>>

CallApiRequest  == ApiRequestCalled(MaxRequests, MaxCalls)
CallEnsureToken == EnsureTokenCalled(MaxRequests, MaxCalls)
Response        == ResponseArrives(MaxRequests)
ReissueRequest  == \E j \in 1..Len(ensures) : Reissue(j, MaxRequests)

\* Two ensureToken calls were made while no token was cached (lines 85-97):
\* each found `token` falsy and issued its own exchange, and both exchanges
\* are in flight. Further calls and the responses follow.
RaceApiRequest  == ApiRequestCalled(MaxRace, MaxRaceCalls)
RaceEnsureToken == EnsureTokenCalled(MaxRace, MaxRaceCalls)
RaceResponse    == ResponseArrives(MaxRace)
RaceReissue     == \E j \in 1..Len(ensures) : Reissue(j, MaxRace)

\* No paginated fetch runs.
PageIdle ==
    /\ pgFn = "none"
    /\ pgSt = "idle"
    /\ pgPages = <<>>
    /\ pgAcc = <<>>
    /\ pgOut = <<>>

\* No getStreamsByMetadata call runs.
MetaIdle ==
    /\ mdTagIds = <<>>
    /\ mdKeywords = <<>>
    /\ mdFetches = 0
    /\ mdTagged = <<>>
    /\ mdKw = <<>>
    /\ mdSt = "idle"
    /\ mdOut = <<>>

\* No stream is tracked and no lifecycle call runs.
StreamIdle ==
    /\ now = 0
    /\ ticks = 0
    /\ cfg = [whitelisted |-> FALSE, blacklisted |-> FALSE]
    /\ row = NoRow
    /\ pending = <<>>
    /\ lastOp = NoOp

InitApi ==
    /\ PageIdle
    /\ MetaIdle
    /\ StreamIdle
    /\ token = "undefined"
    /\ exited = FALSE
    /\ reqs = <<>>
    /\ ensures = <<>>
    /\ lastTok = "none"
    /\ saw401 = FALSE

NextApi ==
    \/ CallApiRequest
    \/ CallEnsureToken
    \/ Response
    \/ ReissueRequest

\* Any number of concurrent calls of apiRequest and ensureToken.
SpecApi == InitApi /\ [][NextApi]_vars

InitRace ==
    /\ PageIdle
    /\ MetaIdle
    /\ StreamIdle
    /\ token = "undefined"
    /\ exited = FALSE
    /\ lastTok = "none"
    /\ saw401 = FALSE
    /\ reqs = << NewRequest("token", TRUE, 1, 1, 1, "ensure", 1),
                 NewRequest("token", TRUE, 1, 2, 1, "ensure", 2) >>
    /\ ensures = << NewEnsure("undefined", 1, 0),
                    NewEnsure("undefined", 2, 0) >>

NextRace ==
    \/ RaceApiRequest
    \/ RaceEnsureToken
    \/ RaceResponse
    \/ RaceReissue

SpecRace == InitRace /\ [][NextRace]_vars

\* One call of apiRequest followed to its end, from a state in which the
\* token is not yet cached or was cached by an earlier ensureToken.
ChainCall     == ApiRequestCalled(MaxChain, 1)
ChainResponse == ResponseArrives(MaxChain)
ChainReissue  == \E j \in 1..Len(ensures) : Reissue(j, MaxChain)

InitChain ==
    /\ PageIdle
    /\ MetaIdle
    /\ StreamIdle
    /\ token \in {"undefined"} \cup TokenValues
    /\ exited = FALSE
    /\ reqs = <<>>
    /\ ensures = <<>>
    /\ lastTok = IF Truthy(token) THEN token ELSE "none"
    /\ saw401 = FALSE

NextChain ==
    \/ ChainCall
    \/ ChainResponse
    \/ ChainReissue

SpecChain == InitChain /\ [][NextChain]_vars

-----------------------------------------------------------------------------
(* Pagination: getAllTags (twitch.js:111-128), getStreams (141-156) *)

\* `first: 100` (lines 114, 145) and `data.length >= 100` (line 150).
PageSize == 100

\* No API call is in progress and none is made.
ApiIdle ==
    /\ token = "undefined"
    /\ exited = FALSE
    /\ reqs = <<>>
    /\ ensures = <<>>
    /\ lastTok = "none"
    /\ saw401 = FALSE

\* What apiRequest may resolve to for one page request: a decoded body with
\* a data array of len items and, or not, pagination.cursor; a bare status
\* code; or undefined (after the rejection handler ran).
PageResponses ==
    { [kind |-> "page", len |-> n, cursor |-> c] :
          n \in {0, 1, PageSize - 1, PageSize}, c \in BOOLEAN }
    \cup { [kind |-> "status", len |-> 0, cursor |-> FALSE],
           [kind |-> "undefined", len |-> 0, cursor |-> FALSE] }

\* The k-th element of the data array of the n-th response.
RawStream(n, k) == <<n, k>>
RawTag(n, k) == [tag_id |-> <<n, k>>, localization_names |-> <<"en-us", n, k>>]

\* Line 119: tag => ({ id: tag.tag_id, name: tag.localization_names['en-us'] }).
TagOf(raw) == [id |-> raw.tag_id, name |-> raw.localization_names]

\* The items a page adds to the accumulator (lines 118-120, 149).
PageItems(fn, n, len) ==
    IF fn = "getStreams" THEN [k \in 1..len |-> RawStream(n, k)]
    ELSE [k \in 1..len |-> TagOf(RawTag(n, k))]

\* Line 116 / 147: `if (!data) return ...`. A bare status code has no data
\* property; an empty array is truthy.
NoData(resp) == resp.kind = "status"

\* Line 122 resp. line 150: whether another page is requested.
FollowCursorGetAllTags(resp) == resp.cursor

FollowCursorGetStreams(resp) == resp.cursor /\ resp.len >= PageSize

FollowCursor(fn, resp) ==
    IF fn = "getStreams" THEN FollowCursorGetStreams(resp)
    ELSE FollowCursorGetAllTags(resp)

\* The response to the page request in flight arrives.
PageArrives(fn) ==
    \E resp \in PageResponses :
        LET n == Len(pgPages) + 1
            newAcc == pgAcc \o PageItems(fn, n, resp.len)
        IN
        /\ pgFn = fn
        /\ pgSt = "fetching"
        /\ Len(pgPages) < MaxPages
        /\ pgPages' = Append(pgPages, resp)
        /\ IF resp.kind = "undefined"
           THEN \* destructuring undefined throws: the promise rejects
                /\ pgSt' = "failed"
                /\ UNCHANGED <<pgAcc, pgOut>>
           ELSE IF NoData(resp)
           THEN /\ pgSt' = "done"
                /\ pgOut' = pgAcc
                /\ UNCHANGED pgAcc
           ELSE IF FollowCursor(fn, resp)
           THEN /\ pgSt' = "fetching"
                /\ pgAcc' = newAcc
                /\ UNCHANGED pgOut
           ELSE /\ pgSt' = "done"
                /\ pgAcc' = newAcc
                /\ pgOut' = newAcc
        /\ UNCHANGED pgFn
        /\ UNCHANGED <<apiVars, metaVars, streamVars>>

GetStreamsPage == PageArrives("getStreams")

GetAllTagsPage == PageArrives("getAllTags")

\* getStreams(games) or getAllTags() was called: the first page request,
\* without a cursor, is in flight.
InitPage ==
    /\ ApiIdle
    /\ MetaIdle
    /\ StreamIdle
    /\ pgFn \in {"getStreams", "getAllTags"}
    /\ pgSt = "fetching"
    /\ pgPages = <<>>
    /\ pgAcc = <<>>
    /\ pgOut = <<>>

NextPage ==
    \/ GetStreamsPage
    \/ GetAllTagsPage

SpecPage == InitPage /\ [][NextPage]_vars

-----------------------------------------------------------------------------
(* getStreamsByTagId, getStreamsByKeywords, getStreamsByMetadata,          *)
(* twitch.js:164-200                                                       *)

\* Line 166: stream.tag_ids && stream.tag_ids.some(id => tagIds.includes(id)).
MatchesTag(stream, tagIds) ==
    /\ ~IsNull(stream.tag_ids)
    /\ \E k \in 1..Len(Val(stream.tag_ids)) :
          ArrayIncludes(tagIds, Val(stream.tag_ids)[k])

\* Line 177: stream.title && keywords.some(kw =>
\*     stream.title.toLowerCase().includes(kw.toLocaleLowerCase())).
\* A null and an empty title are both falsy.
MatchesKeyword(stream, keywords) ==
    /\ ~IsNull(stream.title)
    /\ Val(stream.title) # <<>>
    /\ \E k \in 1..Len(keywords) :
          Includes(ToLowerCase(Val(stream.title)), ToLowerCase(keywords[k]))

\* Line 166: streams.filter(...), in order.
RECURSIVE FilterByTag(_, _)
FilterByTag(streams, tagIds) ==
    IF streams = <<>> THEN <<>>
    ELSE IF MatchesTag(Head(streams), tagIds)
         THEN <<Head(streams)>> \o FilterByTag(Tail(streams), tagIds)
    ELSE FilterByTag(Tail(streams), tagIds)

\* Line 177: streams.filter(...), in order.
RECURSIVE FilterByKeywords(_, _)
FilterByKeywords(streams, keywords) ==
    IF streams = <<>> THEN <<>>
    ELSE IF MatchesKeyword(Head(streams), keywords)
         THEN <<Head(streams)>> \o FilterByKeywords(Tail(streams), keywords)
    ELSE FilterByKeywords(Tail(streams), keywords)

\* Lines 192-198: the reduce that keeps the first stream of every id.
RECURSIVE DedupeInto(_, _)
DedupeInto(acc, list) ==
    IF list = <<>> THEN acc
    ELSE IF \E k \in 1..Len(acc) : acc[k].id = Head(list).id
         THEN DedupeInto(acc, Tail(list))
    ELSE DedupeInto(Append(acc, Head(list)), Tail(list))

\* The same reduce with find(s => s === stream): object identity.
MergeByIdentity(taggedStreams, kwStreams) ==
    LET RECURSIVE Into(_, _)
        Into(acc, list) ==
            IF list = <<>> THEN acc
            ELSE IF \E k \in 1..Len(acc) : acc[k] = Head(list)
                 THEN Into(acc, Tail(list))
            ELSE Into(Append(acc, Head(list)), Tail(list))
    IN Into(<<>>, taggedStreams \o kwStreams)

\* Lines 190-198: [...taggedStreams, ...kwStreams].reduce(..., []).
Merge(taggedStreams, kwStreams) == DedupeInto(<<>>, taggedStreams \o kwStreams)

\* The streams the upstream may list: per id, one that matches by tag only,
\* one by title only, one by both, and one with neither tags nor title.
StreamProfiles ==
    { [tag_ids |-> Some(<<"t1">>),       title |-> Some(<<"c", "d">>)],
      [tag_ids |-> Some(<<"t9">>),       title |-> Some(<<"x", "A", "b">>)],
      [tag_ids |-> Some(<<"t9", "t1">>), title |-> Some(<<"a", "B">>)],
      [tag_ids |-> Null,                 title |-> Null],
      [tag_ids |-> Some(<<>>),           title |-> Some(<<>>)] }

ObservedStreams ==
    { [id |-> i, tag_ids |-> p.tag_ids, title |-> p.title] :
          i \in {1, 2}, p \in StreamProfiles }

\* What one getStreams call may resolve to (the upstream may list a stream
\* twice, and the two calls need not see the same list).
StreamLists ==
    UNION { [1..n -> ObservedStreams] : n \in 0..MaxList }

\* The getStreams call of getStreamsByTagId returns (lines 165-166).
TagFetchReturns ==
    \E list \in StreamLists :
        /\ mdSt = "fetching"
        /\ IsNull(mdTagged)
        /\ mdTagged' = Some(FilterByTag(list, mdTagIds))
        /\ mdFetches' = mdFetches + 1
        /\ UNCHANGED <<mdTagIds, mdKeywords, mdKw, mdSt, mdOut>>
        /\ UNCHANGED <<apiVars, pageVars, streamVars>>

\* The getStreams call of getStreamsByKeywords returns (lines 176-177).
KeywordFetchReturns ==
    \E list \in StreamLists :
        /\ mdSt = "fetching"
        /\ IsNull(mdKw)
        /\ mdKw' = Some(FilterByKeywords(list, mdKeywords))
        /\ mdFetches' = mdFetches + 1
        /\ UNCHANGED <<mdTagIds, mdKeywords, mdTagged, mdSt, mdOut>>
        /\ UNCHANGED <<apiVars, pageVars, streamVars>>

\* One of the two getStreams calls rejects: Promise.all rejects.
MetaFetchFails ==
    /\ mdSt = "fetching"
    /\ IsNull(mdTagged) \/ IsNull(mdKw)
    /\ mdSt' = "failed"
    /\ UNCHANGED <<mdTagIds, mdKeywords, mdFetches, mdTagged, mdKw, mdOut>>
    /\ UNCHANGED <<apiVars, pageVars, streamVars>>

\* Promise.all resolved: the .then of lines 190-199 runs.
MetaMerge ==
    /\ mdSt = "fetching"
    /\ ~IsNull(mdTagged)
    /\ ~IsNull(mdKw)
    /\ mdOut' = Merge(Val(mdTagged), Val(mdKw))
    /\ mdSt' = "done"
    /\ UNCHANGED <<mdTagIds, mdKeywords, mdFetches, mdTagged, mdKw>>
    /\ UNCHANGED <<apiVars, pageVars, streamVars>>

\* getStreamsByMetadata(gameIds, { tagIds, keywords }) was called: both
\* getStreams calls are in flight (lines 187-190).
InitMeta ==
    /\ ApiIdle
    /\ PageIdle
    /\ StreamIdle
    /\ mdTagIds \in {<<"t1">>, <<"t2", "t1">>}
    /\ mdKeywords \in {<<<<"a", "B">>>>, <<<<"z">>, <<"A", "b">>>>}
    /\ mdFetches = 0
    /\ mdTagged = Null
    /\ mdKw = Null
    /\ mdSt = "fetching"
    /\ mdOut = <<>>

NextMeta ==
    \/ TagFetchReturns
    \/ KeywordFetchReturns
    \/ MetaFetchFails
    \/ MetaMerge

SpecMeta == InitMeta /\ [][NextMeta]_vars

-----------------------------------------------------------------------------
(* The stream lifecycle, models/Stream.js *)

\* Integer division that rounds toward zero, as date-fns rounds differences.
TruncDiv(a, b) == IF a >= 0 THEN a \div b ELSE -((-a) \div b)

\* date-fns differenceInMinutes(later, earlier) and differenceInHours: the
\* number of full minutes (hours) between the two, negative when `earlier`
\* is in the future. An absent (null) date gives NaN, written Null here.
DifferenceInMinutes(later, earlier) ==
    IF IsNull(earlier) THEN Null
    ELSE Some(TruncDiv(later - Val(earlier), MinuteLen))

DifferenceInHours(later, earlier) ==
    IF IsNull(earlier) THEN Null
    ELSE Some(TruncDiv(later - Val(earlier), HourLen))

\* Lines 51-64. Properties the input lacks come out as null.
ConvertToDStream(istream) ==
    [ stream_id |-> istream.id, title |-> istream.title,
      tag_ids |-> istream.tag_ids, isLive |-> istream.isLive,
      lastShoutOut |-> istream.lastShoutOut,
      offline_since |-> istream.offline_since ]

\* A TwitchStream as convertToDStream reads it: it has no isLive,
\* lastShoutOut or offline_since property.
TwitchStream(o) ==
    [ id |-> Some(o.id), title |-> o.title, tag_ids |-> o.tag_ids,
      isLive |-> Null, lastShoutOut |-> Null, offline_since |-> Null ]

\* Line 124 without its last property: offline_since is then the null that
\* convertToDStream(update) gives, the record is stored with it cleared.
UpdatedStreamClearsOffline(stream, update) ==
    LET d == ConvertToDStream(TwitchStream(update)) IN
    [ exists |-> stream.exists, stream_id |-> d.stream_id, title |-> d.title,
      tag_ids |-> d.tag_ids, isLive |-> Some(TRUE),
      lastShoutOut |-> stream.lastShoutOut,
      offline_since |-> d.offline_since ]

\* Line 124: { ...stream, ...convertToDStream(update), isLive: true,
\*   lastShoutOut: stream.lastShoutOut, offline_since: stream.offline_since }.
UpdatedStream(stream, update) ==
    LET d == ConvertToDStream(TwitchStream(update)) IN
    [ exists |-> stream.exists, stream_id |-> d.stream_id, title |-> d.title,
      tag_ids |-> d.tag_ids, isLive |-> Some(TRUE),
      lastShoutOut |-> stream.lastShoutOut,
      offline_since |-> stream.offline_since ]

\* Lines 161 and 170: { ...stream, isLive: true, lastShoutOut: null,
\*   offline_since: null }, as create() converts it for the insert.
NewStream(update, shoutOut) ==
    LET d == ConvertToDStream(
                [TwitchStream(update) EXCEPT !.isLive = Some(TRUE),
                                             !.lastShoutOut = shoutOut])
    IN [ exists |-> TRUE, stream_id |-> d.stream_id, title |-> d.title,
         tag_ids |-> d.tag_ids, isLive |-> d.isLive,
         lastShoutOut |-> d.lastShoutOut, offline_since |-> d.offline_since ]

\* Lines 115-117.
IsWhitelisted(c) == c.whitelisted

\* goneLive with the whitelist tested before the reconnect window.
GoneLiveDecisionWhitelistFirst(offM, ageH, whitelisted) ==
    IF whitelisted THEN "alert"
    ELSE IF ~IsNull(offM) /\ Val(offM) < reconnect_minutes THEN "reconnect"
    ELSE IF ~IsNull(ageH) /\ Val(ageH) >= 0 /\ Val(ageH) < shoutout_hours
         THEN "repeat"
    ELSE "alert"

\* goneLive without the repeat-shoutout rule of lines 130-131.
GoneLiveDecisionNoRepeat(offM, ageH, whitelisted) ==
    IF ~IsNull(offM) /\ Val(offM) < reconnect_minutes THEN "reconnect"
    ELSE "alert"

\* goneLive with the repeat-shoutout window one hour short.
GoneLiveDecisionShortWindow(offM, ageH, whitelisted) ==
    IF ~IsNull(offM) /\ Val(offM) < reconnect_minutes THEN "reconnect"
    ELSE IF /\ ~IsNull(ageH) /\ Val(ageH) >= 0
            /\ Val(ageH) < shoutout_hours - 1
            /\ ~whitelisted
         THEN "repeat"
    ELSE "alert"

\* Lines 128-150: which branch goneLive takes. offM is null when
\* offline_since is null; ageH is NaN (Null) when lastShoutOut is null, and
\* every comparison with NaN is false.
GoneLiveDecision(offM, ageH, whitelisted) ==
    IF ~IsNull(offM) /\ Val(offM) < reconnect_minutes THEN "reconnect"
    ELSE IF /\ ~IsNull(ageH) /\ Val(ageH) >= 0 /\ Val(ageH) < shoutout_hours
            /\ ~whitelisted
         THEN "repeat"
    ELSE "alert"

\* alertStream comparing the title with the keywords as they are written.
AlertCheckCaseSensitive(stream, c) ==
    IF IsNull(stream.title) THEN "throws"
    ELSE IF /\ Val(stream.title) # <<>>
            /\ \E k \in 1..Len(BlacklistKeywords) :
                  Includes(Val(stream.title), BlacklistKeywords[k])
         THEN "keyword"
    ELSE IF /\ ~IsNull(stream.tag_ids)
            /\ \E k \in 1..Len(BlacklistTagIds) :
                  ArrayIncludes(Val(stream.tag_ids), BlacklistTagIds[k])
         THEN "tag"
    ELSE IF c.blacklisted THEN "user"
    ELSE "notify"

\* Lines 24-44, alertStream: "throws" (line 26 reads stream.title
\* .toLowerCase() of a missing title), "keyword", "tag", "user" (the three
\* blacklist errors) or "notify" (discordBot.newStreamAlert is called).
AlertCheck(stream, c) ==
    IF IsNull(stream.title) THEN "throws"
    ELSE IF /\ Val(stream.title) # <<>>
            /\ \E k \in 1..Len(BlacklistKeywords) :
                  Includes(ToLowerCase(Val(stream.title)),
                           ToLowerCase(BlacklistKeywords[k]))
         THEN "keyword"
    ELSE IF /\ ~IsNull(stream.tag_ids)
            /\ \E k \in 1..Len(BlacklistTagIds) :
                  ArrayIncludes(Val(stream.tag_ids), BlacklistTagIds[k])
         THEN "tag"
    ELSE IF c.blacklisted THEN "user"
    ELSE "notify"

\* The history record of a completed call.
Completed(op, decision, check, alertOk, stored, snap, obs, at) ==
    [ op |-> op, decision |-> decision, check |-> check,
      notified |-> (check = "notify"), alertOk |-> alertOk,
      subscribed |-> (op \in {"addNew", "goneLive"}),
      stored |-> stored, snap |-> snap, obs |-> obs, at |-> at ]

\* The clock moves forward, or is set back (clock skew).
ClockSteps == {1, 9, 719}
ClockSkews == {1, 720}

Tick ==
    \E d \in ClockSteps :
        /\ ticks < MaxTicks
        /\ now' = now + d
        /\ ticks' = ticks + 1
        /\ lastOp' = NoOp
        /\ UNCHANGED <<cfg, row, pending>>
        /\ UNCHANGED <<apiVars, pageVars, metaVars>>

ClockSetBack ==
    \E d \in ClockSkews :
        /\ ticks < MaxTicks
        /\ now' = now - d
        /\ ticks' = ticks + 1
        /\ lastOp' = NoOp
        /\ UNCHANGED <<cfg, row, pending>>
        /\ UNCHANGED <<apiVars, pageVars, metaVars>>

\* The channel is handled by one addNew / goneLive call at a time (one per
\* polling cycle); setLive, setEnded and update may run while that call
\* awaits the notifier.

\* addNew(stream), lines 158-163, up to the await of alertStream. The caller
\* found no record of the channel.
AddNewStart ==
    \E o \in Observations :
        /\ ~row.exists
        /\ pending = <<>>
        /\ pending' = Append(pending,
              [ op |-> "addNew", decision |-> "alert",
                check |-> AlertCheck(NewStream(o, Null), cfg),
                rec |-> NewStream(o, Null), snap |-> Snapshot(row),
                obs |-> Some(o), at |-> now ])
        /\ lastOp' = NoOp
        /\ UNCHANGED <<now, ticks, cfg, row>>
        /\ UNCHANGED <<apiVars, pageVars, metaVars>>

\* addNew, lines 164-170: alertStream settled (ok: the notifier succeeded),
\* the webhook is subscribed and the record is inserted. The insert fails
\* when a record of the channel exists by now (channel id is a unique key).
AddNewFinish ==
    \E k \in 1..Len(pending) : \E ok \in BOOLEAN :
        LET f == pending[k]
            alerted == f.check = "notify" /\ ok
            rec == IF alerted THEN [f.rec EXCEPT !.lastShoutOut = Some(now)]
                   ELSE f.rec
        IN
        /\ f.op = "addNew"
        /\ f.check # "notify" => ~ok
        /\ row' = IF row.exists THEN row ELSE rec
        /\ pending' = [m \in 1..(Len(pending) - 1) |->
                          IF m < k THEN pending[m] ELSE pending[m + 1]]
        /\ lastOp' = Completed("addNew", f.decision, f.check, alerted,
                               ~row.exists, f.snap, f.obs, f.at)
        /\ UNCHANGED <<now, ticks, cfg>>
        /\ UNCHANGED <<apiVars, pageVars, metaVars>>

\* goneLive(stream, update), lines 122-143, with stream the record the
\* caller has just read. When the shoutout is suppressed (lines 128-131)
\* the call goes on to subscribe and to write the record (152-153);
\* otherwise it awaits alertStream.
GoneLiveStart ==
    \E o \in Observations :
        LET stream == row
            updatedStream == UpdatedStream(stream, o)
            ageH == DifferenceInHours(now, updatedStream.lastShoutOut)
            offM == DifferenceInMinutes(now, updatedStream.offline_since)
            decision == GoneLiveDecision(offM, ageH, IsWhitelisted(cfg))
        IN
        /\ row.exists
        /\ IF decision = "alert"
           THEN /\ pending = <<>>
                /\ pending' = Append(pending,
                      [ op |-> "goneLive", decision |-> decision,
                        check |-> AlertCheck(updatedStream, cfg),
                        rec |-> updatedStream, snap |-> Snapshot(stream),
                        obs |-> Some(o), at |-> now ])
                /\ lastOp' = NoOp
                /\ UNCHANGED row
           ELSE /\ row' = updatedStream
                /\ lastOp' = Completed("goneLive", decision, "none", FALSE,
                                       TRUE, Snapshot(stream), Some(o), now)
                /\ UNCHANGED pending
        /\ UNCHANGED <<now, ticks, cfg>>
        /\ UNCHANGED <<apiVars, pageVars, metaVars>>

\* goneLive without the try/catch of lines 144-149: an alert that fails
\* rejects the call before the subscription and the write.
GoneLiveFinishUncaught ==
    \E k \in 1..Len(pending) : \E ok \in BOOLEAN :
        LET f == pending[k]
            alerted == f.check = "notify" /\ ok
            rec == IF alerted THEN [f.rec EXCEPT !.lastShoutOut = Some(now)]
                   ELSE f.rec
        IN
        /\ f.op = "goneLive"
        /\ f.check # "notify" => ~ok
        /\ row' = IF row.exists /\ alerted THEN rec ELSE row
        /\ pending' = [m \in 1..(Len(pending) - 1) |->
                          IF m < k THEN pending[m] ELSE pending[m + 1]]
        /\ lastOp' = [Completed("goneLive", f.decision, f.check, alerted,
                                row.exists /\ alerted, f.snap, f.obs, f.at)
                         EXCEPT !.subscribed = alerted]
        /\ UNCHANGED <<now, ticks, cfg>>
        /\ UNCHANGED <<apiVars, pageVars, metaVars>>

\* goneLive, lines 144-153: alertStream settled; on success lastShoutOut is
\* set to the time of the completion; the webhook is subscribed and the
\* whole record is written (update(updatedStream), lines 100-111).
GoneLiveFinish ==
    \E k \in 1..Len(pending) : \E ok \in BOOLEAN :
        LET f == pending[k]
            alerted == f.check = "notify" /\ ok
            rec == IF alerted THEN [f.rec EXCEPT !.lastShoutOut = Some(now)]
                   ELSE f.rec
        IN
        /\ f.op = "goneLive"
        /\ f.check # "notify" => ~ok
        /\ row' = IF row.exists THEN rec ELSE row
        /\ pending' = [m \in 1..(Len(pending) - 1) |->
                          IF m < k THEN pending[m] ELSE pending[m + 1]]
        /\ lastOp' = Completed("goneLive", f.decision, f.check, alerted,
                               row.exists, f.snap, f.obs, f.at)
        /\ UNCHANGED <<now, ticks, cfg>>
        /\ UNCHANGED <<apiVars, pageVars, metaVars>>

\* setLive(userId), lines 73-75: only the isLive column is written.
SetLive ==
    /\ row.exists
    /\ row' = [row EXCEPT !.isLive = Some(TRUE)]
    /\ lastOp' = Completed("setLive", "none", "none", FALSE, TRUE,
                           Snapshot(row), Null, now)
    /\ UNCHANGED <<now, ticks, cfg, pending>>
    /\ UNCHANGED <<apiVars, pageVars, metaVars>>

\* setEnded(userId), lines 76-78.
SetEnded ==
    /\ row.exists
    /\ row' = [row EXCEPT !.isLive = Some(FALSE), !.offline_since = Some(now)]
    /\ lastOp' = Completed("setEnded", "none", "none", FALSE, TRUE,
                           Snapshot(row), Null, now)
    /\ UNCHANGED <<now, ticks, cfg, pending>>
    /\ UNCHANGED <<apiVars, pageVars, metaVars>>

\* update(stream, update), lines 100-111, with stream the record the caller
\* has just read: line 110 writes `stream`, not the merged updatedStream, so
\* what `update` carries is not stored.
Update ==
    /\ row.exists
    /\ row' = row
    /\ lastOp' = Completed("update", "none", "none", FALSE, TRUE,
                           Snapshot(row), Null, now)
    /\ UNCHANGED <<now, ticks, cfg, pending>>
    /\ UNCHANGED <<apiVars, pageVars, metaVars>>

InitStream ==
    /\ ApiIdle
    /\ PageIdle
    /\ MetaIdle
    /\ now = 0
    /\ ticks = 0
    /\ cfg \in [whitelisted : BOOLEAN, blacklisted : BOOLEAN]
    /\ row = NoRow
    /\ pending = <<>>
    /\ lastOp = NoOp

NextStream ==
    \/ Tick
    \/ ClockSetBack
    \/ AddNewStart
    \/ AddNewFinish
    \/ GoneLiveStart
    \/ GoneLiveFinish
    \/ SetLive
    \/ SetEnded
    \/ Update

SpecStream == InitStream /\ [][NextStream]_vars

\* Sequential use for a channel that is not whitelisted: addNew, goneLive
\* and setEnded are called one after the other, each call completing before
\* the next one starts, and the clock is never set back. Time may pass
\* while a call awaits the notifier.
SeqGoneLiveStart ==
    /\ pending = <<>>
    /\ GoneLiveStart

SeqSetEnded ==
    /\ pending = <<>>
    /\ SetEnded

InitSeq ==
    /\ InitStream
    /\ ~cfg.whitelisted

NextSeq ==
    \/ Tick
    \/ AddNewStart
    \/ AddNewFinish
    \/ SeqGoneLiveStart
    \/ GoneLiveFinish
    \/ SeqSetEnded

SpecSeq == InitSeq /\ [][NextSeq]_vars

-----------------------------------------------------------------------------
(* Properties of apiRequest and ensureToken *)

ReqIds == 1..Len(reqs)
EnsIds == 1..Len(ensures)

Ok200 == [status |-> 200, fault |-> "none"]

\* Request i is the first issue of a call with retries = 1 and got a 401,
\* and request j is its re-issue.
Reissued401(i, j) ==
    /\ reqs[i].by = "caller" /\ reqs[i].nth = 1 /\ reqs[i].retries = 1
    /\ reqs[i].resp.fault = "none" /\ reqs[i].resp.status = 401
    /\ reqs[j].root = i /\ reqs[j].nth = 2

\* C1: a call of apiRequest that gets a 401 and whose re-issued request gets
\* a 200 resolves to the decoded body of that 200 response.
C1_RetryResolvesToBody ==
    \A i, j \in ReqIds :
        (Reissued401(i, j) /\ reqs[j].st = "settled" /\ reqs[j].resp = Ok200)
            => reqs[i].result = reqs[j].result

\* C2: when the first response and the response to the re-issued request of
\* a call on a data endpoint are both 401, the process has exited and the
\* request is not issued a third time.
C2_SecondUnauthorizedExits ==
    \A i, j \in ReqIds :
        ( /\ Reissued401(i, j)
          /\ reqs[i].endpoint = "api"
          /\ reqs[j].st # "inflight"
          /\ reqs[j].resp.fault = "none" /\ reqs[j].resp.status = 401 )
            => /\ exited
               /\ reqs[j].st = "exit"
               /\ \A k \in ReqIds : reqs[k].root = i => reqs[k].nth <= 2

C2_Witness ==
    \E i, j \in ReqIds :
        /\ Reissued401(i, j)
        /\ reqs[i].endpoint = "api"
        /\ reqs[j].resp.fault = "none" /\ reqs[j].resp.status = 401
        /\ reqs[j].st # "inflight"

\* C3: one logical request is issued at most twice, whatever the upstream
\* answers.
C3_IssuedAtMostTwice ==
    \A i \in ReqIds : reqs[i].nth <= 2 /\ reqs[i].retries >= 0

\* C4: an ensureToken call made after a token was cached returns that token
\* without an exchange when no 401 came in between; when a 401 came in
\* between, the token is absent at the call, an exchange is made and its
\* token is what the call returns.
C4_TokenReuse ==
    \A j \in EnsIds :
        LET e == ensures[j] IN
        e.lastAtCall # "none" =>
            /\ ~e.saw401AtCall => (e.req = 0 /\ e.result = e.lastAtCall)
            /\ e.saw401AtCall =>
                  /\ ~Truthy(e.tokAtCall)
                  /\ e.req # 0
                  /\ e.st = "resolved" =>
                        /\ reqs[e.req].result.k = "body"
                        /\ e.result = reqs[e.req].result.val

\* C5: an exchange answered with a status other than 200 and 401 rejects
\* ensureToken, and ensureToken never resolves to an absent token.
C5_FailedExchangeRejects ==
    \A j \in EnsIds :
        LET e == ensures[j] IN
        /\ ( /\ e.req # 0
             /\ reqs[e.req].st = "settled"
             /\ reqs[e.req].resp.fault = "none"
             /\ reqs[e.req].resp.status \notin {200, 401} )
              => e.st = "rejected"
        /\ e.st = "resolved" => Truthy(e.result)

\* C6: a request answered with a status that is neither 200 nor 401
\* resolves to that status, is not retried (no ensureToken is called for it
\* and it is not issued again) and its handlers leave the token as it was.
C6_OtherStatusIsTheResult ==
    \A i \in ReqIds :
        ( /\ reqs[i].st # "inflight"
          /\ reqs[i].resp.fault = "none"
          /\ reqs[i].resp.status \notin {200, 401} )
            => /\ reqs[i].st = "settled"
               /\ reqs[i].result = StatusVal(reqs[i].resp.status)
               /\ ~reqs[i].retried
               /\ reqs[i].kept
               /\ \A j \in EnsIds : ensures[j].cont # i
               /\ \A k \in ReqIds :
                     reqs[k].root = reqs[i].root => reqs[k].nth <= reqs[i].nth

C6_Witness ==
    \E i \in ReqIds :
        /\ reqs[i].st = "settled"
        /\ reqs[i].resp.fault = "none"
        /\ reqs[i].resp.status \in {429, 500}
        /\ Truthy(token)

-----------------------------------------------------------------------------
(* Properties of the paginated fetches *)

\* A page that ends the pagination: an empty data page (or none at all), a
\* missing cursor or, for getStreams, fewer than PageSize items.
StopPage(fn, resp) ==
    \/ resp.len = 0
    \/ ~resp.cursor
    \/ fn = "getStreams" /\ resp.len < PageSize

RECURSIVE ItemsUpTo(_, _, _)
ItemsUpTo(fn, pages, k) ==
    IF k = 0 THEN <<>>
    ELSE ItemsUpTo(fn, pages, k - 1) \o PageItems(fn, k, pages[k].len)

RECURSIVE SumLen(_, _)
SumLen(pages, k) == IF k = 0 THEN 0 ELSE SumLen(pages, k - 1) + pages[k].len

StopIndexes == {k \in 1..Len(pgPages) : StopPage(pgFn, pgPages[k])}

\* C7: a paginated fetch returns the items of the pages up to and including
\* the first stopping page, in page order, and requests no page after it.
C7_PaginationEndsAtStopPage ==
    /\ pgSt = "done" =>
          /\ StopIndexes # {}
          /\ StopIndexes = {Len(pgPages)}
          /\ Len(pgOut) = SumLen(pgPages, Len(pgPages))
          /\ pgOut = ItemsUpTo(pgFn, pgPages, Len(pgPages))
    /\ pgSt = "fetching" => StopIndexes = {}

-----------------------------------------------------------------------------
(* Properties of getStreamsByMetadata *)

IdsOf(list) == {list[k].id : k \in 1..Len(list)}

Occurrences(list, id) == Cardinality({k \in 1..Len(list) : list[k].id = id})

\* C8: the result of getStreamsByMetadata holds no two entries with the same
\* id, and a stream matched by both filters appears in it exactly once (as
\* does every stream matched by either).
C8_MergedWithoutDuplicates ==
    mdSt = "done" =>
        /\ \A id \in IdsOf(mdOut) : Occurrences(mdOut, id) = 1
        /\ \A id \in IdsOf(Val(mdTagged)) \cap IdsOf(Val(mdKw)) :
              Occurrences(mdOut, id) = 1
        /\ IdsOf(mdOut) = IdsOf(Val(mdTagged)) \cup IdsOf(Val(mdKw))

\* The two calls listed the same channel with a different title, and both
\* filters matched it.
C8_Witness ==
    /\ mdSt = "done"
    /\ \E i \in 1..Len(Val(mdTagged)) : \E j \in 1..Len(Val(mdKw)) :
          /\ Val(mdTagged)[i].id = Val(mdKw)[j].id
          /\ Val(mdTagged)[i] # Val(mdKw)[j]
    /\ Len(mdOut) = 2

-----------------------------------------------------------------------------
(* Properties of the stream lifecycle *)

Live(r) == r.exists /\ r.isLive = Some(TRUE)

C10_ReconnectSuppressed ==
    ( /\ lastOp.op = "goneLive"
      /\ ~IsNull(lastOp.snap.offline_since)
      /\ lastOp.at - Val(lastOp.snap.offline_since)
            < reconnect_minutes * MinuteLen )
        => /\ ~lastOp.notified
           /\ ~lastOp.alertOk
           /\ lastOp.stored
           /\ Live(row)
           /\ row.lastShoutOut = lastOp.snap.lastShoutOut

\* A whitelisted channel, shouted out before, that went offline four and a
\* half minutes ago has just been handled by goneLive.
C10_Witness ==
    /\ lastOp.op = "goneLive"
    /\ cfg.whitelisted
    /\ ~cfg.blacklisted
    /\ ~IsNull(lastOp.snap.lastShoutOut)
    /\ ~IsNull(lastOp.snap.offline_since)
    /\ lastOp.at - Val(lastOp.snap.offline_since) = 9
    /\ lastOp.obs = Some([id |-> 1, title |-> Some(<<"a", "b">>),
                           tag_ids |-> Some(<<"t1">>)])
    /\ Live(row)


\* The record goneLive was given is outside the reconnect window at the
\* time of the call: it never went offline, or did so reconnect_minutes
\* or more before.
OutsideReconnectWindow(op) ==
    \/ IsNull(op.snap.offline_since)
    \/ op.at - Val(op.snap.offline_since) >= reconnect_minutes * MinuteLen

\* C11: when goneLive runs for a channel that is not whitelisted, is outside
\* the reconnect window and was shouted out at or before the time of the
\* call and fewer than shoutout_hours hours before it, the notifier is not
\* called and the stored lastShoutOut is the one the record had.
C11_RepeatShoutoutSuppressed ==
    ( /\ lastOp.op = "goneLive"
      /\ ~cfg.whitelisted
      /\ OutsideReconnectWindow(lastOp)
      /\ ~IsNull(lastOp.snap.lastShoutOut)
      /\ lastOp.at - Val(lastOp.snap.lastShoutOut) >= 0
      /\ lastOp.at - Val(lastOp.snap.lastShoutOut) < shoutout_hours * HourLen )
        => /\ ~lastOp.notified
           /\ ~lastOp.alertOk
           /\ lastOp.stored
           /\ row.lastShoutOut = lastOp.snap.lastShoutOut

\* goneLive has just handled a channel that is not whitelisted, was shouted
\* out half a minute short of six hours ago and went offline exactly
\* reconnect_minutes ago or never.
C11_Witness ==
    /\ lastOp.op = "goneLive"
    /\ ~cfg.whitelisted
    /\ ~cfg.blacklisted
    /\ OutsideReconnectWindow(lastOp)
    /\ ~IsNull(lastOp.snap.lastShoutOut)
    /\ lastOp.at - Val(lastOp.snap.lastShoutOut) = shoutout_hours * HourLen - 1
    /\ lastOp.obs = Some([id |-> 1, title |-> Some(<<"a", "b">>),
                           tag_ids |-> Some(<<"t1">>)])
    /\ row.lastShoutOut = lastOp.snap.lastShoutOut


\* The observed stream o matches the blacklist of the configuration: a
\* blacklisted keyword in its title (whatever the case), a blacklisted tag
\* id among its tags, or the channel among the blacklisted users.
BlacklistMatch(o, c) ==
    \/ /\ ~IsNull(o.title)
       /\ \E k \in 1..Len(BlacklistKeywords) :
             Includes(ToLowerCase(Val(o.title)),
                      ToLowerCase(BlacklistKeywords[k]))
    \/ /\ ~IsNull(o.tag_ids)
       /\ \E k \in 1..Len(BlacklistTagIds) :
             ArrayIncludes(Val(o.tag_ids), BlacklistTagIds[k])
    \/ c.blacklisted

\* C12: when goneLive runs for a whitelisted channel that matches no
\* blacklist and is outside the reconnect window, the notifier is called,
\* whatever the age of the last shoutout, and when the notifier succeeds
\* the stored lastShoutOut is the current time.
C12_WhitelistBypass ==
    ( /\ lastOp.op = "goneLive"
      /\ cfg.whitelisted
      /\ ~BlacklistMatch(Val(lastOp.obs), cfg)
      /\ OutsideReconnectWindow(lastOp) )
        => /\ lastOp.notified
           /\ lastOp.alertOk => row.lastShoutOut = Some(now)


\* The stored record is live and carries what was observed.
StoredAsObserved(o) ==
    /\ Live(row)
    /\ row.stream_id = Some(o.id)
    /\ row.title = o.title
    /\ row.tag_ids = o.tag_ids

\* C13: when addNew or goneLive has handled a stream that matches the
\* blacklist (keyword in the title whatever the case, tag id, or user id),
\* the notifier was not called, lastShoutOut is what it was before (null
\* for addNew), and the record is stored live with the observed metadata
\* and the offline_since it had.
C13_BlacklistSuppresses ==
    ( /\ lastOp.op \in {"addNew", "goneLive"}
      /\ BlacklistMatch(Val(lastOp.obs), cfg) )
        => /\ ~lastOp.notified
           /\ ~lastOp.alertOk
           /\ lastOp.stored
           /\ StoredAsObserved(Val(lastOp.obs))
           /\ row.lastShoutOut = lastOp.snap.lastShoutOut
           /\ row.offline_since = lastOp.snap.offline_since

\* goneLive reached alertStream (no rule suppressed the shoutout) with a
\* title that holds the blacklisted keyword in another case.
C13_Witness ==
    /\ lastOp.op = "goneLive"
    /\ lastOp.decision = "alert"
    /\ ~cfg.blacklisted
    /\ lastOp.obs = Some([id |-> 2, title |-> Some(<<"a", "x", "b">>),
                           tag_ids |-> Some(<<"t1">>)])
    /\ StoredAsObserved(Val(lastOp.obs))
    /\ ~lastOp.notified


\* C14: every completed addNew and goneLive call, whether the shoutout was
\* suppressed, blocked by the blacklist, failed in the notifier or
\* succeeded, has subscribed the channel's webhook and stored the record
\* live with the observed metadata.
C14_AlwaysSubscribedAndStored ==
    lastOp.op \in {"addNew", "goneLive"}
        => /\ lastOp.subscribed
           /\ lastOp.stored
           /\ StoredAsObserved(Val(lastOp.obs))

\* goneLive called the notifier, the notifier failed, and the record was
\* stored all the same; its lastShoutOut is the old one.
C14_Witness ==
    /\ lastOp.op = "goneLive"
    /\ lastOp.notified
    /\ ~lastOp.alertOk
    /\ lastOp.subscribed
    /\ lastOp.stored
    /\ StoredAsObserved(Val(lastOp.obs))
    /\ row.lastShoutOut = lastOp.snap.lastShoutOut


\* C15: the write of a goneLive call whose notifier has settled leaves the
\* offline_since that is stored at that moment. In every sequential order
\* of goneLive and setEnded this is so (goneLive writes back the
\* offline_since it has just read), hence a setEnded that completed while
\* goneLive awaited the notifier is not overwritten.
C15_GoneLiveKeepsConcurrentSetEnded ==
    [][ ( /\ pending # <<>>
          /\ pending' = <<>>
          /\ pending[1].op = "goneLive" )
            => row'.offline_since = row.offline_since ]_vars


-----------------------------------------------------------------------------
(* Properties of getAllTags *)

\* C16: getAllTags requests a further page only after a response with a
\* non-empty data page and a cursor, and it ends at a response with an
\* empty data page or without a cursor.
C16_TagsFollowCursorOnlyAfterData ==
    pgFn = "getAllTags" =>
        /\ \A k \in 1..Len(pgPages) :
              (k < Len(pgPages) \/ pgSt = "fetching")
                  => pgPages[k].len > 0 /\ pgPages[k].cursor
        /\ (pgSt = "done" /\ pgPages # <<>>)
              => \/ pgPages[Len(pgPages)].len = 0
                 \/ ~pgPages[Len(pgPages)].cursor


-----------------------------------------------------------------------------
(* Properties of the fetches of getStreamsByMetadata *)

InList(list, s) == \E k \in 1..Len(list) : list[k] = s

\* C17: a completed getStreamsByMetadata call has fetched the stream list
\* once, and both filters saw that one list: a stream the tag filter kept
\* and the keywords match is among those the keyword filter kept, and the
\* other way round.
C17_CandidatesFetchedOnce ==
    mdSt = "done" =>
        /\ mdFetches = 1
        /\ \A k \in 1..Len(Val(mdTagged)) :
              MatchesKeyword(Val(mdTagged)[k], mdKeywords)
                  => InList(Val(mdKw), Val(mdTagged)[k])
        /\ \A k \in 1..Len(Val(mdKw)) :
              MatchesTag(Val(mdKw)[k], mdTagIds)
                  => InList(Val(mdTagged), Val(mdKw)[k])


-----------------------------------------------------------------------------
(* Properties of goneLive under clock skew *)

\* C18: when goneLive finds offline_since in the future it does not take
\* the reconnect branch, and when it finds lastShoutOut in the future it
\* does not take the repeat-shoutout branch: a negative elapsed time never
\* suppresses the shoutout.
C18_NegativeElapsedFailsOpen ==
    lastOp.op = "goneLive" =>
        /\ ( /\ ~IsNull(lastOp.snap.offline_since)
             /\ lastOp.at - Val(lastOp.snap.offline_since) < 0 )
              => lastOp.decision # "reconnect"
        /\ ( /\ ~IsNull(lastOp.snap.lastShoutOut)
             /\ lastOp.at - Val(lastOp.snap.lastShoutOut) < 0 )
              => lastOp.decision # "repeat"


-----------------------------------------------------------------------------
(* Properties of concurrent ensureToken calls *)

\* The two ensureToken calls that raced have completed.
RaceOver == ensures[1].st # "pending" /\ ensures[2].st # "pending"

\* C19: two ensureToken calls that start while no token is cached both
\* issue an exchange; once both have completed and as long as no 401 has
\* come in since a token was last written, the cached token is present and
\* is the one written last, and every ensureToken call made from then on
\* returns it without an exchange.
C19_LastExchangeWins ==
    /\ ensures[1].req # 0 /\ ensures[2].req # 0
    /\ (RaceOver /\ ~saw401) => (Truthy(token) /\ token = lastTok)
    /\ \A j \in EnsIds :
          ( /\ j > 2
            /\ ensures[j].cont = 0
            /\ ~ensures[j].saw401AtCall
            /\ ensures[j].lastAtCall # "none" )
              => /\ ensures[j].req = 0
                 /\ ensures[j].result = ensures[j].lastAtCall


-----------------------------------------------------------------------------
(* Properties of sequential histories of one channel *)

\* C20: in a sequential history of a channel that is not whitelisted, with
\* a clock that is never set back, every step in which the notifier
\* succeeds stores its time as lastShoutOut and comes shoutout_hours or more
\* after the stored lastShoutOut, and no other step changes lastShoutOut.
\* So lastShoutOut is always the time of the most recent successful
\* notifier call (null when there was none), and two such calls are
\* shoutout_hours or more apart.
C20_ShoutoutsSpacedAndRecorded ==
    [][ LET succeeded == /\ pending # <<>>
                         /\ pending' = <<>>
                         /\ lastOp'.alertOk
        IN
        /\ succeeded =>
              /\ row'.lastShoutOut = Some(now)
              /\ ~IsNull(row.lastShoutOut) =>
                    now - Val(row.lastShoutOut) >= shoutout_hours * HourLen
        /\ ~succeeded => row'.lastShoutOut = row.lastShoutOut ]_vars

\* goneLive has just shouted out a channel that was shouted out before, and
\* went offline in between.
C20_Witness ==
    /\ lastOp.op = "goneLive"
    /\ lastOp.alertOk
    /\ ~cfg.whitelisted
    /\ ~IsNull(lastOp.snap.lastShoutOut)
    /\ ~IsNull(lastOp.snap.offline_since)
    /\ row.lastShoutOut = Some(now)
    /\ now - Val(lastOp.snap.lastShoutOut) >= shoutout_hours * HourLen

====
